---- MODULE Spec2Model ----
(***************************************************************************)
(* A model of the acronym-expander content script (class AcronymExpander), *)
(* of the iframe script that answers its EXPAND_ACRONYM requests, and of   *)
(* the page events that drive them.                                        *)
(*                                                                         *)
(* A JavaScript string is modelled as the sequence of its characters, each *)
(* a one-character TLA+ string; offsets are 0-based as in the source.      *)
(***************************************************************************)
EXTENDS Integers, Sequences, FiniteSets, TLC

VARIABLES
    text,        \* processTextNode run on its own: the node's textContent
    fragments,   \* ... the fragments array it built
    scanned,     \* ... whether processTextNode has run on text
    dom,         \* the document: node id -> node, document.body is node 1
    records,     \* the MutationObserver's queue: added element nodes
    inserted,    \* how many elements the page's scripts have inserted
    settled,     \* history: processPage(document.body) ran, no change since
    lastOp,      \* history: the handler that ran last ("rerun": processPage
                 \* on a subtree that was traversed and not changed since)
    visits,      \* history: the processTextNode calls of the handler that
                 \* ran last, in order, each with its batch's offset
    scans,       \* history: the nodes processTextNode was called on by the
                 \* MutationObserver's traversals, in order
    enabledSetting, \* extensionEnabled as the options page stored it last
    expansions,  \* #cache.expansions: acronym -> expansion
    pending,     \* #cache.pending: acronym -> the resolve function stored
    awaiting,    \* the handleMouseOver calls suspended at line 313
    hovers,      \* how many handleMouseOver calls passed lines 292-295
    contentWindow, \* whether #iframe.contentWindow exists
    toIframe,    \* EXPAND_ACRONYM messages posted, not yet handled
    tasks,       \* the iframe's listener calls suspended at an await
    aiSession,   \* the iframe's aiSession: 0 is null, k the k-th session
    sessions,    \* how many sessions languageModel.create() has returned
    toPage,      \* EXPANSION_RESULT messages posted, not yet handled
    tooltip,     \* #tooltipState.element and what it shows
    hideTimeout, \* #tooltipState.hideTimeout: 0 is null
    timers,      \* the hide timers set and neither fired nor cleared
    timeouts,    \* how many timers window.setTimeout has handed out
    outstanding, \* history: per acronym, requests sent minus results received
    pageRequests, \* how many EXPAND_ACRONYM messages page scripts have posted
    pointer,     \* history: the marked span hovered last (0: none yet) and
                 \* whether the pointer has stayed on it since
    lastDone     \* history: how the handleMouseOver call that ended last ended

detVars == <<text, fragments, scanned>>

domVars ==
    <<dom, records, inserted, settled, lastOp, visits, scans, enabledSetting>>

hoverVars ==
    <<expansions, pending, awaiting, hovers, contentWindow, toIframe, tasks,
      aiSession, sessions, toPage, tooltip, hideTimeout, timers, timeouts,
      outstanding, pageRequests, pointer, lastDone>>

vars == <<detVars, domVars, hoverVars>>

(***************************************************************************)
(* Characters and strings                                                  *)
(***************************************************************************)
Upper ==
    {"A", "B", "C", "D", "E", "F", "G", "H", "I", "J", "K", "L", "M",
     "N", "O", "P", "Q", "R", "S", "T", "U", "V", "W", "X", "Y", "Z"}

Lower ==
    {"a", "b", "c", "d", "e", "f", "g", "h", "i", "j", "k", "l", "m",
     "n", "o", "p", "q", "r", "s", "t", "u", "v", "w", "x", "y", "z"}

Digit ==
    {"0", "1", "2", "3", "4", "5", "6", "7", "8", "9"}

\* \w of the regular expression
WordChars ==
    Upper \cup Lower \cup Digit \cup {"_"}

\* the characters String.prototype.trim removes (those the model uses)
WhiteSpace ==
    {" ", "\t", "\n"}

\* text[i], or "" (no character) outside the string
CharAt(s, i) ==
    IF i >= 0 /\ i < Len(s) THEN s[i + 1] ELSE ""

\* s.slice(a, b) for 0 <= a <= b <= s.length
Slice(s, a, b) ==
    SubSeq(s, a + 1, b)

\* s.slice(p, p + w.length) === w
StartsWithAt(s, p, w) ==
    /\ p + Len(w) <= Len(s)
    /\ Slice(s, p, p + Len(w)) = w

RECURSIVE RunEnd(_, _, _)
\* the offset where the longest run of characters of class cls starting at
\* p ends (a greedy cls* from p)
RunEnd(s, p, cls) ==
    IF CharAt(s, p) \in cls THEN RunEnd(s, p + 1, cls) ELSE p

(***************************************************************************)
(* The Detector: the regular expression acronymPattern of processTextNode, *)
(* a group of four alternatives between two word boundaries, global flag.  *)
(***************************************************************************)
\* \b at offset p: exactly one of the characters around p is a word character
IsWordBoundary(s, p) ==
    (CharAt(s, p - 1) \in WordChars) # (CharAt(s, p) \in WordChars)

\* the offsets hi, hi-1, .., lo: where a greedy quantifier may end, in the
\* order backtracking tries them
Descending(hi, lo) ==
    [k \in 1..(hi - lo + 1) |-> hi - k + 1]

\* first alternative from p: two or more uppercase letters, then any
\* interleaving of digits and uppercase letters, all greedy
UpperAlternative(s, p) ==
    IF CharAt(s, p) \in Upper /\ CharAt(s, p + 1) \in Upper
    THEN Descending(RunEnd(s, p + 2, Upper \cup Digit), p + 2)
    ELSE <<>>

\* second and third alternative from p: the prefix letter (i or e), one
\* uppercase letter, one or more lowercase letters
PrefixAlternative(s, p, prefix) ==
    IF CharAt(s, p) = prefix /\ CharAt(s, p + 1) \in Upper
    THEN Descending(RunEnd(s, p + 2, Lower), p + 3)
    ELSE <<>>

frameworkNames ==
    {<<"N", "o", "d", "e">>, <<"W", "e", "b">>, <<"R", "e", "a", "c", "t">>,
     <<"V", "u", "e">>, <<"N", "e", "x", "t">>}

\* the suffix js or JS at offset q
JsAt(s, q) ==
    StartsWithAt(s, q, <<"j", "s">>) \/ StartsWithAt(s, q, <<"J", "S">>)

\* fourth alternative from p: a framework name, an optional dot, an
\* optional suffix; dot and suffix are greedy, and given up one after the
\* other on backtracking
FrameworkAlternative(s, p) ==
    IF \E w \in frameworkNames : StartsWithAt(s, p, w)
    THEN LET w == CHOOSE x \in frameworkNames : StartsWithAt(s, p, x)
             q == p + Len(w)
             dot == CharAt(s, q) = "."
         IN  (IF dot /\ JsAt(s, q + 1) THEN <<q + 3>> ELSE <<>>)
             \o (IF dot THEN <<q + 1>> ELSE <<>>)
             \o (IF JsAt(s, q) THEN <<q + 2>> ELSE <<>>)
             \o <<q>>
    ELSE <<>>

\* the ends the group can reach from p, alternatives in their order
GroupEnds(s, p) ==
    UpperAlternative(s, p) \o PrefixAlternative(s, p, "i")
        \o PrefixAlternative(s, p, "e") \o FrameworkAlternative(s, p)

\* the first of the ends that the closing \b accepts, or -1
FirstAccepted(s, ends) ==
    LET ok == {k \in 1..Len(ends) : IsWordBoundary(s, ends[k])}
    IN  IF ok # {} THEN ends[CHOOSE k \in ok : \A j \in ok : k <= j] ELSE -1

\* the end of the match that starts at p, or -1: the opening \b, then the
\* first end the group reaches that the closing \b accepts
MatchEndAt(s, p) ==
    IF IsWordBoundary(s, p) THEN FirstAccepted(s, GroupEnds(s, p)) ELSE -1

RECURSIVE Exec(_, _)
\* the match found with the scan at offset from, where the attempt at from
\* ended at end (-1: it failed, the scan moves on)
ExecFrom(s, from, end) ==
    IF end >= 0 THEN [index |-> from, end |-> end] ELSE Exec(s, from + 1)

\* acronymPattern.exec(text) with acronymPattern.lastIndex = from: the
\* leftmost match at or after from; index -1 stands for null
Exec(s, from) ==
    IF from > Len(s) THEN [index |-> -1, end |-> -1]
    ELSE ExecFrom(s, from, MatchEndAt(s, from))

nonTechWords ==
    {<<"U", "S", "A">>, <<"U", "K">>, <<"E", "U">>, <<"U", "N">>,
     <<"M", "r">>, <<"M", "r", "s">>, <<"M", "s">>, <<"D", "r">>,
     <<"A", "M">>, <<"P", "M">>}

\* line 249 with the length test off by one
shouldSkipAcronymOffByOne(acronym) ==
    acronym \in nonTechWords \/ Len(acronym) >= 12

\* shouldSkipAcronym(acronym), lines 233-250
shouldSkipAcronym(acronym) ==
    acronym \in nonTechWords \/ Len(acronym) > 12

(***************************************************************************)
(* processTextNode: the fragments array                                    *)
(***************************************************************************)
\* document.createTextNode(data), before it is attached; index is the
\* offset of data in the node's text
TextFragment(data, index) ==
    [kind |-> "text", data |-> data, index |-> index]

\* the span of lines 206-209: class acronym-expander, textContent and
\* dataset.acronym the match; index is match.index
SpanFragment(acronym, index) ==
    [kind |-> "span", data |-> acronym, index |-> index]

\* lines 200-210: the fragments one accepted match adds
Accepted(s, match, lastIndex, frags) ==
    frags
    \o (IF match.index > lastIndex
        THEN <<TextFragment(Slice(s, lastIndex, match.index), lastIndex)>>
        ELSE <<>>)
    \o <<SpanFragment(Slice(s, match.index, match.end), match.index)>>

RECURSIVE MatchLoop(_, _, _, _)
\* the loop body if a rejected match moved lastIndex past it as an accepted
\* one does
LoopBodyDroppingSkipped(s, match, lastIndex, frags) ==
    IF match.index < 0
    THEN [lastIndex |-> lastIndex, fragments |-> frags]
    ELSE IF shouldSkipAcronym(Slice(s, match.index, match.end))
         THEN MatchLoop(s, match.end, match.end, frags)
         ELSE MatchLoop(s, match.end, match.end,
                        Accepted(s, match, lastIndex, frags))

\* the body of the while loop, lines 191-212, for the match exec returned
LoopBody(s, match, lastIndex, frags) ==
    IF match.index < 0
    THEN [lastIndex |-> lastIndex, fragments |-> frags]
    ELSE IF shouldSkipAcronym(Slice(s, match.index, match.end))
         THEN MatchLoop(s, match.end, lastIndex, frags)
         ELSE MatchLoop(s, match.end, match.end,
                        Accepted(s, match, lastIndex, frags))

\* the while loop of lines 190-213; reLast is acronymPattern.lastIndex
MatchLoop(s, reLast, lastIndex, frags) ==
    LoopBody(s, Exec(s, reLast), lastIndex, frags)

\* lines 215-217: the text after the last accepted match
WithRest(s, r) ==
    r.fragments
    \o (IF r.lastIndex < Len(s)
        THEN <<TextFragment(Slice(s, r.lastIndex, Len(s)), r.lastIndex)>>
        ELSE <<>>)

\* the fragments processTextNode holds at line 219 (none when it returns
\* early at line 163)
Fragments(s) ==
    IF Len(s) < 2 THEN <<>> ELSE WithRest(s, MatchLoop(s, 0, 0, <<>>))

(***************************************************************************)
(* Input texts                                                             *)
(***************************************************************************)
MaxWords == 2

Space == <<" ">>

Vocabulary ==
    {<<"T", "h", "e">>, <<"U", "S", "A">>, <<"A", "P", "I">>, <<"P", "M">>,
     <<"A", "B", "C", "D", "E", "F", "G", "H", "I", "J", "K", "L">>,
     <<"A", "B", "C", "D", "E", "F", "G", "H", "I", "J", "K", "L", "M">>,
     <<"i", "O", "S">>, <<"e", "B", "o", "o", "k">>,
     <<"N", "o", "d", "e", ".", "j", "s">>, <<"N", "o", "d", "e", ".">>,
     <<"P", "S", "5">>, <<"A", "P", "I", "s">>, <<"(", "G", "P", "U", ")">>}

RECURSIVE Phrases(_)
\* the texts of 1..n words of the vocabulary, separated by one space
Phrases(n) ==
    IF n = 0 THEN {}
    ELSE Vocabulary
         \cup Phrases(n - 1)
         \cup {p \o Space \o w : p \in Phrases(n - 1), w \in Vocabulary}

SampleUSA ==
    <<"T", "h", "e", " ", "U", "S", "A", " ", "u", "s", "e", "s", " ", "a",
      "n", " ", "A", "P", "I", " ", "f", "o", "r", " ", "P", "M", " ", "u",
      "p", "d", "a", "t", "e", "s">>

SampleGPU ==
    <<"C", "h", "e", "c", "k", " ", "t", "h", "e", " ", "G", "P", "U", " ",
      "a", "n", "d", " ", "H", "D", "R", " ", "s", "e", "t", "t", "i", "n",
      "g", "s">>

\* "GPU in USA and API": a rejected match between two accepted ones
SampleBetween ==
    <<"G", "P", "U", " ", "i", "n", " ", "U", "S", "A", " ", "a", "n", "d", " ",
      "A", "P", "I">>

DetectorInputs ==
    Phrases(MaxWords) \cup {SampleUSA, SampleGPU, SampleBetween, <<>>, <<"A">>}

(***************************************************************************)
(* The document                                                            *)
(***************************************************************************)
Body == 1

\* an element; marked is classList.contains("acronym-expander"), acronym is
\* dataset.acronym ("" when unset), parent 0 is no parent
Element(tag, marked, acronym, parent, children) ==
    [kind |-> "element", tag |-> tag, marked |-> marked, acronym |-> acronym,
     data |-> <<>>, parent |-> parent, children |-> children]

TextNode(data, parent) ==
    [kind |-> "text", tag |-> "#text", marked |-> FALSE, acronym |-> <<>>,
     data |-> data, parent |-> parent, children |-> <<>>]

\* the filter without the test of line 96: text inside a marked span is
\* accepted again
acceptNodeIgnoringClass(d, n) ==
    LET parent == d[n].parent
    IN  /\ parent # 0
        /\ d[parent].tag \notin {"script", "style", "code", "pre"}

\* the acceptNode filter of processPage, lines 91-105
acceptNode(d, n) ==
    LET parent == d[n].parent
    IN  /\ parent # 0
        /\ ~ d[parent].marked
        /\ d[parent].tag \notin {"script", "style", "code", "pre"}

RECURSIVE WalkNodes(_, _)
\* the text nodes the TreeWalker yields below the elements of list, in
\* document order (whatToShow is SHOW_TEXT: elements are descended into,
\* the filter sees text nodes only); the list is walked by halves, which
\* keeps the recursion shallow on long pages
WalkNodes(d, list) ==
    IF list = <<>> THEN <<>>
    ELSE IF Len(list) = 1
         THEN IF d[list[1]].kind = "text"
              THEN (IF acceptNode(d, list[1]) THEN <<list[1]>> ELSE <<>>)
              ELSE WalkNodes(d, d[list[1]].children)
         ELSE WalkNodes(d, SubSeq(list, 1, Len(list) \div 2))
              \o WalkNodes(d, SubSeq(list, Len(list) \div 2 + 1, Len(list)))

\* lines 108-112: textNodes
textNodes(d, root) ==
    WalkNodes(d, d[root].children)

\* how many of the first j fragments are spans
SpanRank(frags, j) ==
    Cardinality({i \in 1..j : frags[i].kind = "span"})

\* the nodes lines 201-221 create for the fragments frags: the container
\* (id base+1), the fragments (ids base+2 ..) and the text child that
\* span.textContent = acronym gives each marked span
ContainerNodes(frags, base, parent) ==
    LET k == Len(frags)
        c == base + 1
        fragId(j) == base + 1 + j
        childId(j) == base + 1 + k + SpanRank(frags, j)
        spanOf(r) == CHOOSE j \in 1..k :
                        frags[j].kind = "span" /\ SpanRank(frags, j) = r
    IN  [i \in 1..(1 + k + SpanRank(frags, k)) |->
            IF i = 1
            THEN Element("span", FALSE, <<>>, parent, [j \in 1..k |-> fragId(j)])
            ELSE IF i <= 1 + k
                 THEN IF frags[i - 1].kind = "text"
                      THEN TextNode(frags[i - 1].data, c)
                      ELSE Element("span", TRUE, frags[i - 1].data, c,
                                   <<childId(i - 1)>>)
                 ELSE TextNode(frags[spanOf(i - 1 - k)].data,
                               fragId(spanOf(i - 1 - k)))]

\* children with node n replaced by node c
ReplaceChild(children, n, c) ==
    [i \in 1..Len(children) |-> IF children[i] = n THEN c ELSE children[i]]

\* line 219: the node is replaced by a container only then
Replaces(frags) ==
    Len(frags) > 1

\* lines 219-223 for node n of document d with the fragments frags:
\* node.replaceWith(container) puts the container in the node's place, if
\* the node has a parent; records collects the element nodes added
ReplaceWith(d, recs, n, frags) ==
    IF Replaces(frags) /\ d[n].parent # 0
    THEN [dom |-> [d EXCEPT ![d[n].parent].children =
                                ReplaceChild(@, n, Len(d) + 1),
                            ![n].parent = 0]
                  \o ContainerNodes(frags, Len(d), d[n].parent),
          records |-> Append(recs, Len(d) + 1)]
    ELSE [dom |-> d, records |-> recs]

\* processTextNode(node) on the document st.dom, lines 161-226
processTextNode(st, n) ==
    ReplaceWith(st.dom, st.records, n, Fragments(st.dom[n].data))

BATCH_SIZE == 50

\* the state r after a processTextNode call on node n in the batch at
\* offset i, with the call added to the calls made so far
Visit(r, visited, n, i) ==
    [dom |-> r.dom, records |-> r.records,
     visited |-> Append(visited, [node |-> n, batch |-> i])]

RECURSIVE ProcessBatch(_, _, _)
\* one batch, lines 118-131: processTextNode has no await, so the nodes of
\* a batch are processed one after the other (a document is never empty:
\* the test on st.dom has TLC evaluate st before the next call, which
\* keeps its evaluation stack shallow on long pages)
ProcessBatch(st, batch, i) ==
    IF batch = <<>> \/ st.dom = <<>> THEN st
    ELSE ProcessBatch(Visit(processTextNode(st, Head(batch)), st.visited,
                            Head(batch), i),
                      Tail(batch), i)

\* the for loop if it handed every node to one Promise.all
ProcessBatchesUnbounded(st, nodes, i) ==
    ProcessBatch(st, nodes, i)

RECURSIVE ProcessBatches(_, _, _)
\* the for loop of lines 116-132 from offset i
ProcessBatches(st, nodes, i) ==
    IF i >= Len(nodes) THEN st
    ELSE ProcessBatches(
             ProcessBatch(st, SubSeq(nodes, i + 1,
                                     IF i + BATCH_SIZE < Len(nodes)
                                     THEN i + BATCH_SIZE ELSE Len(nodes)), i),
             nodes, i + BATCH_SIZE)

\* the document d with no mutation record queued and no call made yet
Fresh(d) ==
    [dom |-> d, records |-> <<>>, visited |-> <<>>]

\* processPage(root), lines 87-132
processPage(st, root) ==
    ProcessBatches(st, textNodes(st.dom, root), 0)

RECURSIVE ProcessAdded(_, _)
\* lines 269-277: processPage on every added element node
ProcessAdded(st, added) ==
    IF added = <<>> THEN st
    ELSE ProcessAdded(
             IF st.dom[Head(added)].kind = "element"
             THEN processPage(st, Head(added)) ELSE st,
             Tail(added))

(***************************************************************************)
(* The page: traversal, mutation watcher, settings                         *)
(***************************************************************************)
MaxInserts == 1

PageTexts ==
    {SampleGPU, SampleUSA, <<"A", "P", "I">>,
     <<"G", "P", "U", " ", "o", "r", " ", "G", "P", "U">>,
     <<"N", "o", "d", "e", ".", "U", "S", "A", " ", "x">>,
     <<"n", "o", " ", "c", "a", "p", "s">>}

InsertedTexts ==
    {<<"a", "n", " ", "A", "P", "I">>, <<"A", "P", "I">>, <<"P", "M">>}

MaxParagraphs == 101

\* how many paragraphs the long pages have: around the multiples of
\* BATCH_SIZE
PageSizes ==
    {n \in 0..MaxParagraphs : n % BATCH_SIZE \in {0, 1, 2, BATCH_SIZE - 1}}

\* the text of each paragraph of a long page
LongPageTexts ==
    {<<"n", "o">>, <<"A", "P", "I">>, <<"a", "n", " ", "A", "P", "I">>}

\* <body><p>txt</p> .. <p>txt</p></body> with n paragraphs: paragraph j
\* is node 2j, its text node 2j+1
LongPage(n, txt) ==
    [i \in 1..(2 * n + 1) |->
        IF i = 1 THEN Element("body", FALSE, <<>>, 0, [j \in 1..n |-> 2 * j])
        ELSE IF i % 2 = 0 THEN Element("p", FALSE, <<>>, Body, <<i + 1>>)
        ELSE TextNode(txt, i - 1)]

\* <body><tag>txt</tag></body> as the page delivers it
RawPage(tag, txt) ==
    <<Element("body", FALSE, <<>>, 0, <<2>>),
      Element(tag, FALSE, <<>>, Body, <<3>>),
      TextNode(txt, 2)>>


(***************************************************************************)
(* The iframe script: what it makes of a model response                    *)
(***************************************************************************)
RECURSIVE trimStart(_)
trimStart(s) ==
    IF s # <<>> /\ Head(s) \in WhiteSpace THEN trimStart(Tail(s)) ELSE s

RECURSIVE trimEnd(_)
trimEnd(s) ==
    IF s # <<>> /\ s[Len(s)] \in WhiteSpace
    THEN trimEnd(SubSeq(s, 1, Len(s) - 1)) ELSE s

\* String.prototype.trim
trim(s) ==
    trimEnd(trimStart(s))

UpperLetters ==
    <<"A", "B", "C", "D", "E", "F", "G", "H", "I", "J", "K", "L", "M",
      "N", "O", "P", "Q", "R", "S", "T", "U", "V", "W", "X", "Y", "Z">>

LowerLetters ==
    <<"a", "b", "c", "d", "e", "f", "g", "h", "i", "j", "k", "l", "m",
      "n", "o", "p", "q", "r", "s", "t", "u", "v", "w", "x", "y", "z">>

\* String.prototype.toLowerCase
toLowerCase(s) ==
    [i \in 1..Len(s) |->
        IF s[i] \in Upper
        THEN LowerLetters[CHOOSE k \in 1..26 : UpperLetters[k] = s[i]]
        ELSE s[i]]

\* String.prototype.includes
includes(s, sub) ==
    \E p \in 0..(Len(s) - Len(sub)) : StartsWithAt(s, p, sub)

RefusalPhrase ==
    <<"n", "o", "t", " ", "a", " ", "t", "e", "c", "h", " ", "t", "e", "r", "m">>

\* lines 42-48 with the test of line 44 made on result itself, not on its
\* lower-case form
ExpansionOfCaseSensitive(response) ==
    LET result == trim(response)
    IN  IF includes(result, RefusalPhrase) THEN <<>> ELSE result

\* lines 42-48 of the iframe script: the expansion handed to
\* sendExpansionResult for the model's response
ExpansionOf(response) ==
    LET result == trim(response)
    IN  IF includes(toLowerCase(result), RefusalPhrase) THEN <<>> ELSE result

\* sendExpansionResult(acronym, expansion), lines 61-72: the message posted;
\* response (history) is the model's response, or Thrown
sendExpansionResult(acronym, expansion, response) ==
    [acronym |-> acronym, expansion |-> trim(expansion), response |-> response]

\* history value: create() or prompt() threw instead of returning
Thrown ==
    <<"[exception]">>

(***************************************************************************)
(* The content script: cache, pending requests, tooltip                    *)
(***************************************************************************)
\* Map.get(k) of a missing key
Undefined ==
    <<"undefined">>

\* the value a handleMouseOver call gets when it awaits what line 303 read
\* from #cache.pending: the resolve function line 310 stored there
ResolveFunction ==
    <<"[Function: resolve]">>

MapGet(m, k) ==
    IF k \in DOMAIN m THEN m[k] ELSE Undefined

MapSet(m, k, v) ==
    [x \in DOMAIN m \cup {k} |-> IF x = k THEN v ELSE m[x]]

MapDelete(m, k) ==
    [x \in DOMAIN m \ {k} |-> m[x]]

EmptyMap ==
    [x \in {} |-> 0]

\* JavaScript truthiness of a string, undefined or a function
Truthy(v) ==
    v # Undefined /\ v # <<>>

NoTooltip ==
    [element |-> FALSE, display |-> "none", textContent |-> <<>>, anchor |-> 0]

\* showTooltip(text, target), lines 332-347
showTooltip(txt, target) ==
    [element |-> TRUE, display |-> "block", textContent |-> txt, anchor |-> target]

\* lines 313-321 once the await of line 313 has delivered value: calling
\* trim on the resolve function throws a TypeError, which line 319 catches
\* and logs
AfterAwait(value, target, tt) ==
    IF ~Truthy(value)
    THEN [error |-> FALSE, shown |-> FALSE, tooltip |-> tt]
    ELSE IF value = ResolveFunction
         THEN [error |-> TRUE, shown |-> FALSE, tooltip |-> tt]
         ELSE IF trim(value) # <<>>
              THEN [error |-> FALSE, shown |-> TRUE,
                    tooltip |-> showTooltip(value, target)]
              ELSE [error |-> FALSE, shown |-> FALSE, tooltip |-> tt]

\* lines 322-324: the expansion came from the cache
CacheHit(expansion, target, tt) ==
    IF trim(expansion) # <<>>
    THEN [error |-> FALSE, shown |-> TRUE, tooltip |-> showTooltip(expansion, target)]
    ELSE [error |-> FALSE, shown |-> FALSE, tooltip |-> tt]

\* history record of a finished handleMouseOver call: whether it was
\* answered from the cache ("hit"), made the request ("issued") or found one
\* pending ("joined"), the value it got, the model response behind it, and
\* whether it logged an error or showed the tooltip
Done(role, acronym, target, value, response, r) ==
    [role |-> role, acronym |-> acronym, target |-> target, value |-> value,
     response |-> response, error |-> r.error, shown |-> r.shown]

\* clearTimeout(id)
clearTimeout(ts, id) ==
    SelectSeq(ts, LAMBDA t : t.id # id)

\* history: the timers left were set before a mouseover on a marked span
Rehovered(ts) ==
    [i \in 1..Len(ts) |-> [ts[i] EXCEPT !.rehovered = TRUE]]

\* line 304 without its test: a request is made whether or not one is pending
NeedsRequestUnchecked(acronym) ==
    TRUE

\* line 304: whether a new request is made for acronym
NeedsRequest(acronym) ==
    acronym \notin DOMAIN pending

(***************************************************************************)
(* Bounds and inputs                                                       *)
(***************************************************************************)
MaxHovers == 3

MaxMouseOuts == 2

MaxPageRequests == 1

\* the page the hover model runs on: two spans carry GPU, one HDR
HoverText ==
    <<"G", "P", "U", " ", "o", "r", " ", "G", "P", "U", ",", " ", "H", "D", "R">>

\* what the language model may answer
Responses ==
    {<<"G", "P", "U", ":", " ", "c", "h", "i", "p">>,
     <<"N", "o", "t", " ", "a", " ", "t", "e", "c", "h", " ", "t", "e", "r", "m">>,
     <<" ", "n", "o", "t", " ", "a", " ", "T", "E", "C", "H", " ", "t", "e",
       "r", "m", "\n">>,
     <<"H", "D", "R", " ", "i", "s", " ", "n", "o", "t", " ", "a", " ", "t",
       "e", "c", "h", " ", "t", "e", "r", "m">>}

\* the acronyms of the marked spans of document d
Acronyms(d) ==
    {d[n].acronym : n \in {m \in DOMAIN d : d[m].marked}}

(***************************************************************************)
(* Initial states                                                          *)
(***************************************************************************)
\* processTextNode not under study
DetIdle ==
    /\ text = <<>>
    /\ fragments = <<>>
    /\ scanned = FALSE

DetInit ==
    /\ text \in DetectorInputs
    /\ fragments = <<>>
    /\ scanned = FALSE

\* after the constructor: initialize() has run processPage() on the body
\* (line 40) before the MutationObserver is created (line 268)
DomInitOf(tags, texts, toggles) ==
    /\ \E tag \in tags, txt \in texts :
           dom = processPage(Fresh(RawPage(tag, txt)),
                             Body).dom
    /\ records = <<>>
    /\ inserted = 0
    /\ settled = TRUE
    /\ lastOp = "initialize"
    /\ visits = <<>>
    /\ scans = <<>>
    /\ enabledSetting \in toggles

\* after the constructor: the iframe is injected (lines 49-52), cache and
\* tooltip state are as declared (lines 19-25)
HoverInit ==
    /\ expansions = EmptyMap
    /\ pending = EmptyMap
    /\ awaiting = {}
    /\ hovers = 0
    /\ contentWindow = TRUE
    /\ toIframe = <<>>
    /\ tasks = <<>>
    /\ aiSession = 0
    /\ sessions = 0
    /\ toPage = <<>>
    /\ tooltip = NoTooltip
    /\ hideTimeout = 0
    /\ timers = <<>>
    /\ timeouts = 0
    /\ outstanding = [a \in Acronyms(dom) |-> 0]
    /\ pageRequests = 0
    /\ pointer = [span |-> 0, over |-> FALSE]
    /\ lastDone = [role |-> "none", acronym |-> <<>>, target |-> 0,
                   value |-> <<>>, response |-> <<>>, error |-> FALSE,
                   shown |-> FALSE]

(***************************************************************************)
(* processTextNode on its own                                              *)
(***************************************************************************)
RunProcessTextNode ==
    /\ ~scanned
    /\ scanned' = TRUE
    /\ fragments' = Fragments(text)
    /\ UNCHANGED <<text, domVars, hoverVars>>

(***************************************************************************)
(* The page: mutation watcher and settings                                 *)
(***************************************************************************)
\* a script of the page appends <tag>txt</tag> to the body
InsertElement(tag, txt) ==
    /\ records = <<>>
    /\ inserted < MaxInserts
    /\ inserted' = inserted + 1
    /\ dom' = [dom EXCEPT ![Body].children = Append(@, Len(dom) + 1)]
              \o <<Element(tag, FALSE, <<>>, Body, <<Len(dom) + 2>>),
                   TextNode(txt, Len(dom) + 1)>>
    /\ records' = <<Len(dom) + 1>>
    /\ settled' = FALSE
    /\ lastOp' = "insert"
    /\ UNCHANGED <<visits, scans, enabledSetting, detVars, hoverVars>>

\* a script of the page appends a <div> to the body and then, in the same
\* task, <tag>txt</tag> to that div: two childList records
InsertNested(tag, txt) ==
    /\ records = <<>>
    /\ inserted < MaxInserts
    /\ inserted' = inserted + 1
    /\ dom' = [dom EXCEPT ![Body].children = Append(@, Len(dom) + 1)]
              \o <<Element("div", FALSE, <<>>, Body, <<Len(dom) + 2>>),
                   Element(tag, FALSE, <<>>, Len(dom) + 1, <<Len(dom) + 3>>),
                   TextNode(txt, Len(dom) + 2)>>
    /\ records' = <<Len(dom) + 1, Len(dom) + 2>>
    /\ settled' = FALSE
    /\ lastOp' = "insert"
    /\ UNCHANGED <<visits, scans, enabledSetting, detVars, hoverVars>>

\* the MutationObserver callback, lines 268-278: a microtask, so it runs
\* before any other event once records are queued
ObserverCallback ==
    /\ records # <<>>
    /\ LET st == ProcessAdded(Fresh(dom), records)
       IN  /\ dom' = st.dom
           /\ records' = st.records
           /\ visits' = st.visited
           /\ scans' = scans \o [k \in DOMAIN st.visited |-> st.visited[k].node]
    /\ lastOp' = IF settled THEN "rerun" ELSE "observer"
    /\ UNCHANGED <<inserted, settled, enabledSetting, detVars, hoverVars>>

\* handleSettingsChange(settings) if disabling also emptied the cache
handleSettingsChangeClearingCache(extensionEnabled) ==
    /\ records = <<>>
    /\ enabledSetting' = extensionEnabled
    /\ IF ~extensionEnabled
       THEN /\ dom' = [n \in DOMAIN dom |-> [dom[n] EXCEPT !.marked = FALSE]]
            /\ records' = records
            /\ settled' = FALSE
            /\ lastOp' = "disable"
            /\ visits' = <<>>
            /\ expansions' = EmptyMap
       ELSE LET st == processPage(Fresh(dom), Body)
            IN  /\ dom' = st.dom
                /\ records' = st.records
                /\ settled' = TRUE
                /\ lastOp' = IF settled THEN "rerun" ELSE "enable"
                /\ visits' = st.visited
                /\ expansions' = expansions
    /\ UNCHANGED <<inserted, scans, detVars, pending, awaiting, hovers, contentWindow,
                   toIframe, tasks, aiSession, sessions, toPage, tooltip,
                   hideTimeout, timers, timeouts, outstanding, pageRequests,
                   pointer, lastDone>>

\* handleSettingsChange(settings), lines 366-374
handleSettingsChange(extensionEnabled) ==
    /\ records = <<>>
    /\ enabledSetting' = extensionEnabled
    /\ IF ~extensionEnabled
       THEN /\ dom' = [n \in DOMAIN dom |-> [dom[n] EXCEPT !.marked = FALSE]]
            /\ records' = records
            /\ settled' = FALSE
            /\ lastOp' = "disable"
            /\ visits' = <<>>
       ELSE LET st == processPage(Fresh(dom), Body)
            IN  /\ dom' = st.dom
                /\ records' = st.records
                /\ settled' = TRUE
                /\ lastOp' = IF settled THEN "rerun" ELSE "enable"
                /\ visits' = st.visited
    /\ UNCHANGED <<inserted, scans, detVars, hoverVars>>

(***************************************************************************)
(* Hovering: handleMouseOver, handleMouseOut, the hide timer               *)
(***************************************************************************)
\* handleMouseOver(event) with event.target = target, lines 290-325
handleMouseOver(target) ==
    /\ hovers < MaxHovers
    /\ dom[target].kind = "element" /\ dom[target].marked
    /\ dom[target].acronym # <<>>
    /\ LET acronym == dom[target].acronym
           expansion == MapGet(expansions, acronym)
           left == Rehovered(clearTimeout(timers, hideTimeout))
       IN  /\ hovers' = hovers + 1
           /\ pointer' = [span |-> target, over |-> TRUE]
           /\ timers' = left
           /\ IF ~Truthy(expansion)
              THEN IF NeedsRequest(acronym)
                   THEN /\ toIframe' = IF contentWindow
                                       THEN Append(toIframe, acronym)
                                       ELSE toIframe
                        /\ outstanding' = IF contentWindow
                                          THEN [outstanding EXCEPT ![acronym] = @ + 1]
                                          ELSE outstanding
                        /\ pending' = MapSet(pending, acronym, hovers + 1)
                        /\ awaiting' = awaiting \cup
                               {[id |-> hovers + 1, acronym |-> acronym,
                                 target |-> target]}
                        /\ UNCHANGED <<tooltip, lastDone>>
                   ELSE LET r == AfterAwait(ResolveFunction, target, tooltip)
                        IN  /\ tooltip' = r.tooltip
                            /\ lastDone' = Done("joined", acronym, target,
                                                ResolveFunction, <<>>, r)
                            /\ UNCHANGED <<toIframe, outstanding, pending, awaiting>>
              ELSE LET r == CacheHit(expansion, target, tooltip)
                   IN  /\ tooltip' = r.tooltip
                       /\ lastDone' = Done("hit", acronym, target, expansion,
                                           <<>>, r)
                       /\ UNCHANGED <<toIframe, outstanding, pending, awaiting>>
    /\ UNCHANGED <<expansions, contentWindow, tasks, aiSession, sessions, toPage,
                   hideTimeout, timeouts, detVars, domVars, pageRequests>>

\* handleMouseOut(), lines 352-360: a mouseout anywhere in the document
handleMouseOut ==
    /\ tooltip.element \/ pointer.over
    /\ pointer' = [pointer EXCEPT !.over = FALSE]
    /\ IF tooltip.element
       THEN /\ timeouts < MaxMouseOuts
            /\ timeouts' = timeouts + 1
            /\ hideTimeout' = timeouts + 1
            /\ timers' = Append(timers,
                                [id |-> timeouts + 1, rehovered |-> FALSE])
       ELSE UNCHANGED <<timeouts, hideTimeout, timers>>
    /\ UNCHANGED <<expansions, pending, awaiting, hovers, contentWindow, toIframe,
                   tasks, aiSession, sessions, toPage, tooltip, outstanding,
                   lastDone, detVars, domVars, pageRequests>>

\* the callback of lines 354-358, 200 ms after its setTimeout: the timers
\* have the same delay, so they fire in the order they were set
HideTimerFires ==
    /\ timers # <<>>
    /\ timers' = Tail(timers)
    /\ tooltip' = IF tooltip.element
                  THEN [tooltip EXCEPT !.display = "none"] ELSE tooltip
    /\ UNCHANGED <<expansions, pending, awaiting, hovers, contentWindow, toIframe,
                   tasks, aiSession, sessions, toPage, hideTimeout, timeouts,
                   outstanding, lastDone, detVars, domVars, pageRequests,
                   pointer>>

(***************************************************************************)
(* The iframe's message listener                                           *)
(***************************************************************************)
RemoveAt(q, i) ==
    SubSeq(q, 1, i - 1) \o SubSeq(q, i + 1, Len(q))

\* the listener is called with an EXPAND_ACRONYM message, lines 12-25: it
\* awaits create() when there is no session, else prompt()
IframeReceives ==
    /\ toIframe # <<>>
    /\ toIframe' = Tail(toIframe)
    /\ tasks' = Append(tasks,
                       IF aiSession = 0
                       THEN [acronym |-> Head(toIframe), pc |-> "create", session |-> 0]
                       ELSE [acronym |-> Head(toIframe), pc |-> "prompt",
                             session |-> aiSession])
    /\ UNCHANGED <<expansions, pending, awaiting, hovers, contentWindow, aiSession,
                   sessions, toPage, tooltip, hideTimeout, timers, timeouts,
                   outstanding, lastDone, detVars, domVars, pageRequests,
                   pointer>>

\* languageModel.create() returns: line 20 assigns aiSession, line 41 calls
\* prompt on it
CreateReturns(i) ==
    /\ tasks[i].pc = "create"
    /\ sessions' = sessions + 1
    /\ aiSession' = sessions + 1
    /\ tasks' = [tasks EXCEPT ![i] = [@ EXCEPT !.pc = "prompt",
                                               !.session = sessions + 1]]
    /\ UNCHANGED <<expansions, pending, awaiting, hovers, contentWindow, toIframe,
                   toPage, tooltip, hideTimeout, timers, timeouts, outstanding,
                   lastDone, detVars, domVars, pageRequests,
                   pointer>>

\* create() or prompt() throws and nothing catches it: the listener call
\* ends without posting a result
TaskThrowsUncaught(i) ==
    /\ tasks' = RemoveAt(tasks, i)
    /\ UNCHANGED <<expansions, pending, awaiting, hovers, contentWindow, toIframe,
                   aiSession, sessions, toPage, tooltip, hideTimeout, timers,
                   timeouts, outstanding, lastDone, detVars, domVars, pageRequests,
                   pointer>>

\* create() or prompt() throws: the catch of lines 49-52
TaskThrows(i) ==
    /\ toPage' = Append(toPage, sendExpansionResult(tasks[i].acronym, <<>>, Thrown))
    /\ tasks' = RemoveAt(tasks, i)
    /\ UNCHANGED <<expansions, pending, awaiting, hovers, contentWindow, toIframe,
                   aiSession, sessions, tooltip, hideTimeout, timers, timeouts,
                   outstanding, lastDone, detVars, domVars, pageRequests,
                   pointer>>

\* prompt() returns response: lines 41-48
PromptReturns(i, response) ==
    /\ tasks[i].pc = "prompt"
    /\ toPage' = Append(toPage, sendExpansionResult(tasks[i].acronym,
                                    ExpansionOf(response), response))
    /\ tasks' = RemoveAt(tasks, i)
    /\ UNCHANGED <<expansions, pending, awaiting, hovers, contentWindow, toIframe,
                   aiSession, sessions, tooltip, hideTimeout, timers, timeouts,
                   outstanding, lastDone, detVars, domVars, pageRequests,
                   pointer>>

\* a script of the page posts EXPAND_ACRONYM to the iframe's window: the
\* iframe is in the page's document and its listener accepts every message
\* whose source is window.parent (line 13 of the iframe script)
PagePostsRequest(acronym) ==
    /\ contentWindow
    /\ pageRequests < MaxPageRequests
    /\ pageRequests' = pageRequests + 1
    /\ toIframe' = Append(toIframe, acronym)
    /\ outstanding' = [outstanding EXCEPT ![acronym] = @ + 1]
    /\ UNCHANGED <<expansions, pending, awaiting, hovers, contentWindow, tasks,
                   aiSession, sessions, toPage, tooltip, hideTimeout, timers,
                   timeouts, pointer, lastDone, detVars, domVars>>

\* the page takes the iframe out of the document: contentWindow becomes
\* null, and what was in flight to and from the iframe goes with it
IframeRemoved ==
    /\ contentWindow
    /\ contentWindow' = FALSE
    /\ toIframe' = <<>>
    /\ tasks' = <<>>
    /\ toPage' = <<>>
    /\ UNCHANGED <<expansions, pending, awaiting, hovers, aiSession, sessions,
                   tooltip, hideTimeout, timers, timeouts, outstanding, lastDone,
                   detVars, domVars, pageRequests,
                   pointer>>

(***************************************************************************)
(* The content script's message listener                                   *)
(***************************************************************************)
\* the listener of lines 65-80 is called with the EXPANSION_RESULT the
\* iframe posted first; the handleMouseOver call whose resolve function is
\* stored resumes at line 313 in the same turn
ReceiveResult ==
    /\ toPage # <<>>
    /\ contentWindow
    /\ LET acronym == Head(toPage).acronym
           expansion == Head(toPage).expansion
       IN  /\ toPage' = Tail(toPage)
           /\ expansions' = MapSet(expansions, acronym, expansion)
           /\ outstanding' = [outstanding EXCEPT ![acronym] = @ - 1]
           /\ IF acronym \in DOMAIN pending
              THEN LET resumed == {h \in awaiting : h.id = pending[acronym]}
                       h == CHOOSE x \in resumed : TRUE
                       r == AfterAwait(expansion, h.target, tooltip)
                   IN  /\ pending' = MapDelete(pending, acronym)
                       /\ awaiting' = awaiting \ resumed
                       /\ IF resumed # {}
                          THEN /\ tooltip' = r.tooltip
                               /\ lastDone' = Done("issued", acronym, h.target,
                                                   expansion,
                                                   Head(toPage).response, r)
                          ELSE UNCHANGED <<tooltip, lastDone>>
              ELSE UNCHANGED <<pending, awaiting, tooltip, lastDone>>
    /\ UNCHANGED <<hovers, contentWindow, toIframe, tasks, aiSession, sessions,
                   hideTimeout, timers, timeouts, detVars, domVars, pageRequests,
                   pointer>>

(***************************************************************************)
(* Specifications                                                          *)
(***************************************************************************)
\* the hover model, on the page HoverText
Init ==
    /\ DetIdle
    /\ DomInitOf({"p"}, {HoverText}, {TRUE})
    /\ HoverInit

Next ==
    \/ \E target \in DOMAIN dom : handleMouseOver(target)
    \/ handleMouseOut
    \/ HideTimerFires
    \/ IframeReceives
    \/ \E i \in DOMAIN tasks : CreateReturns(i)
    \/ \E i \in DOMAIN tasks : TaskThrows(i)
    \/ \E i \in DOMAIN tasks, response \in Responses : PromptReturns(i, response)
    \/ IframeRemoved
    \/ ReceiveResult

Spec ==
    Init /\ [][Next]_vars

\* the iframe's listener and the message channel make progress; the user
\* and the page need not act
FairSpec ==
    /\ Spec
    /\ WF_vars(IframeReceives)
    /\ WF_vars(\E i \in DOMAIN tasks : CreateReturns(i) \/ TaskThrows(i))
    /\ WF_vars(\E i \in DOMAIN tasks, response \in Responses :
                   PromptReturns(i, response))
    /\ WF_vars(ReceiveResult)

\* the answers of the language model in the settings model
SettingsResponses ==
    {<<"G", "P", "U", ":", " ", "c", "h", "i", "p">>,
     <<"N", "o", "t", " ", "a", " ", "t", "e", "c", "h", " ", "t", "e", "r", "m">>}

\* the settings model: hovering and resolution on the page HoverText, with
\* SETTINGS_CHANGED messages from the options page.  On this page a re-run of
\* processPage replaces no node, so the observer has nothing queued.
SettingsNext ==
    \/ \E target \in DOMAIN dom : handleMouseOver(target)
    \/ IframeReceives
    \/ \E i \in DOMAIN tasks : CreateReturns(i)
    \/ \E i \in DOMAIN tasks, response \in SettingsResponses :
           PromptReturns(i, response)
    \/ ReceiveResult
    \/ \E extensionEnabled \in BOOLEAN : handleSettingsChange(extensionEnabled)

SpecSettings ==
    Init /\ [][SettingsNext]_vars

\* the channel model: hovering and resolution on the page HoverText, with
\* requests that page scripts post to the iframe themselves
ChannelNext ==
    \/ \E target \in DOMAIN dom : handleMouseOver(target)
    \/ \E acronym \in Acronyms(dom) : PagePostsRequest(acronym)
    \/ IframeReceives
    \/ \E i \in DOMAIN tasks : CreateReturns(i)
    \/ \E i \in DOMAIN tasks, response \in SettingsResponses :
           PromptReturns(i, response)
    \/ ReceiveResult

SpecChannel ==
    Init /\ [][ChannelNext]_vars

\* the segmenter model: traversal, mutation watcher, settings
DomInit ==
    /\ DetIdle
    /\ DomInitOf({"p", "code"}, PageTexts, BOOLEAN)
    /\ HoverInit

DomNext ==
    \/ \E tag \in {"p", "code"}, txt \in InsertedTexts : InsertElement(tag, txt)
    \/ \E tag \in {"p", "code"}, txt \in InsertedTexts : InsertNested(tag, txt)
    \/ ObserverCallback
    \/ \E extensionEnabled \in BOOLEAN : handleSettingsChange(extensionEnabled)

SpecDom ==
    DomInit /\ [][DomNext]_vars

\* the batch model: SETTINGS_CHANGED messages on long pages, after the
\* constructor's traversal has completed.  No re-run replaces a node on
\* these pages, so the observer has nothing queued.
BatchInit ==
    /\ DetIdle
    /\ \E n \in PageSizes, txt \in LongPageTexts :
           dom = processPage(Fresh(LongPage(n, txt)), Body).dom
    /\ records = <<>>
    /\ inserted = 0
    /\ settled = TRUE
    /\ lastOp = "initialize"
    /\ visits = <<>>
    /\ scans = <<>>
    /\ enabledSetting = TRUE
    /\ HoverInit

BatchNext ==
    \E extensionEnabled \in BOOLEAN : handleSettingsChange(extensionEnabled)

SpecBatch ==
    BatchInit /\ [][BatchNext]_vars

\* processTextNode on its own, over the input texts
DetectInit ==
    /\ DetInit
    /\ DomInitOf({"p"}, {<<>>}, {TRUE})
    /\ HoverInit

DetectNext ==
    RunProcessTextNode

SpecDetect ==
    DetectInit /\ [][DetectNext]_vars

(***************************************************************************)
(* Claims                                                                  *)
(***************************************************************************)
\* the document of the hover model, and its acronyms
HoverDom ==
    processPage(Fresh(RawPage("p", HoverText)), Body).dom

HoverAcronyms ==
    Acronyms(HoverDom)

\* C1: single flight. For every acronym, at most one EXPAND_ACRONYM request
\* is outstanding (sent, its EXPANSION_RESULT not yet received) at any
\* time: while one is outstanding, no hover sends another.
C1_SingleFlight ==
    \A a \in DOMAIN outstanding : outstanding[a] <= 1

\* C1 witness: a second hover, on another span with the same acronym, found
\* the request pending, and exactly one request is outstanding.
C1_Witness ==
    /\ lastDone.role = "joined"
    /\ \E h \in awaiting : h.acronym = lastDone.acronym /\ h.target # lastDone.target
    /\ outstanding[lastDone.acronym] = 1

\* C2 as claimed: every handleMouseOver call that made or joined a pending
\* request ends without an error and with the expansion received for its
\* acronym.
C2_FanOut ==
    lastDone.role \in {"issued", "joined"}
        => /\ ~lastDone.error
           /\ lastDone.acronym \in DOMAIN expansions
           /\ lastDone.value = expansions[lastDone.acronym]

\* C3 as claimed: once an EXPANSION_RESULT for an acronym has been received
\* (the cache has an entry for it, the empty string included), no step
\* sends a new request for it.
C3_CacheStability ==
    [][\A a \in DOMAIN expansions : outstanding'[a] <= outstanding[a]]_vars

\* C4 as claimed: once the cache holds an expansion for an acronym, it
\* holds that same expansion in every later state.
C4_ResolvedIsTerminal ==
    [][\A a \in DOMAIN expansions :
          a \in DOMAIN expansions' /\ expansions'[a] = expansions[a]]_vars

\* C5 as claimed: every pending entry is eventually resolved, whether or
\* not its request could be sent or is answered.  In the code only the
\* listener of lines 64-81 deletes a pending entry, and only on an
\* EXPANSION_RESULT: no timer and no failure path does.
C5_NoAwaiterStarved ==
    \A a \in HoverAcronyms : (a \in DOMAIN pending) ~> (a \notin DOMAIN pending)

\* a step in which the content script's listener handles the first
\* EXPANSION_RESULT in flight
ResultHandled ==
    toPage # <<>> /\ contentWindow' /\ toPage' = Tail(toPage)

\* a step in which listener call i of the iframe ends
ListenerEnds(i) ==
    contentWindow' /\ tasks' = RemoveAt(tasks, i)

\* C6: a failure in the iframe becomes an empty expansion. Every listener
\* call of the iframe that ends posts exactly one EXPANSION_RESULT, for its
\* own acronym, and with the empty expansion when create() or prompt()
\* threw; when the content script handles such a result it caches the empty
\* string, and the handleMouseOver call waiting for it ends without an error
\* and leaves the tooltip as it is.
C6_FailureBecomesEmpty ==
    [][/\ \A i \in DOMAIN tasks :
              ListenerEnds(i)
                  => /\ Len(toPage') = Len(toPage) + 1
                     /\ SubSeq(toPage', 1, Len(toPage)) = toPage
                     /\ toPage'[Len(toPage')].acronym = tasks[i].acronym
                     /\ toPage'[Len(toPage')].response = Thrown
                            => toPage'[Len(toPage')].expansion = <<>>
       /\ (ResultHandled /\ Head(toPage).response = Thrown)
              => /\ Head(toPage).expansion = <<>>
                 /\ expansions'[Head(toPage).acronym] = <<>>
                 /\ tooltip' = tooltip
                 /\ Head(toPage).acronym \in DOMAIN pending
                        => /\ lastDone'.role = "issued"
                           /\ lastDone'.acronym = Head(toPage).acronym
                           /\ lastDone'.value = <<>>
                           /\ ~lastDone'.error
                           /\ ~lastDone'.shown
                           /\ awaiting' = awaiting \
                                  {h \in awaiting : h.acronym = Head(toPage).acronym}
      ]_vars

\* C6 witness: the handleMouseOver call that made the request has ended on
\* the result of a listener call that threw, the empty string is cached
C6_Witness ==
    /\ lastDone.role = "issued"
    /\ lastDone.response = Thrown
    /\ lastDone.acronym \in DOMAIN expansions
    /\ expansions[lastDone.acronym] = <<>>
    /\ ~lastDone.shown

\* the model's response is the refusal phrase, in any letter case, with or
\* without white space around it
IsRefusal(response) ==
    /\ response # Thrown
    /\ toLowerCase(trim(response)) = RefusalPhrase

\* C7: normalization of the refusal phrase. An EXPANSION_RESULT posted for
\* a response that is the refusal phrase carries the empty expansion; when
\* the content script handles it, it caches the empty string and the
\* handleMouseOver call waiting for it shows no tooltip.
C7_RefusalNormalized ==
    [][/\ \A k \in DOMAIN toPage' :
              IsRefusal(toPage'[k].response) => toPage'[k].expansion = <<>>
       /\ (ResultHandled /\ IsRefusal(Head(toPage).response))
              => /\ expansions'[Head(toPage).acronym] = <<>>
                 /\ tooltip' = tooltip
                 /\ Head(toPage).acronym \in DOMAIN pending
                        => lastDone'.role = "issued" /\ ~lastDone'.shown
      ]_vars

\* C7 witness: a handleMouseOver call ended on the result for a response
\* that is the refusal phrase in another letter case and with white space
C7_Witness ==
    /\ lastDone.role = "issued"
    /\ IsRefusal(lastDone.response)
    /\ lastDone.response # RefusalPhrase
    /\ trim(lastDone.response) # lastDone.response
    /\ expansions[lastDone.acronym] = <<>>
    /\ ~lastDone.shown

\* C8: segmenter idempotence. processPage run on a subtree that has been
\* traversed and not changed since (a second SETTINGS_CHANGED with
\* extensionEnabled true, the observer's pass over the containers the
\* traversal made) replaces no node and adds none: the document, its marked
\* spans included, is as it was.
C8_SegmenterIdempotent ==
    [][lastOp' = "rerun" => dom' = dom /\ records' = <<>>]_vars

\* C8 witness: processPage ran a second time on a document that holds a
\* container with a marked span
C8_Witness ==
    /\ lastOp = "rerun"
    /\ \E n \in DOMAIN dom :
           /\ dom[n].marked
           /\ dom[n].parent # 0
           /\ ~dom[dom[n].parent].marked
           /\ Len(dom[dom[n].parent].children) > 1

RECURSIVE RawMatches(_, _)
\* every match of acronymPattern in s from offset from on, in order
RawMatches(s, from) ==
    IF Exec(s, from).index < 0 THEN <<>>
    ELSE <<Exec(s, from)>> \o RawMatches(s, Exec(s, from).end)

\* the skip-set as the specification lists it
SkipSet ==
    {<<"U", "S", "A">>, <<"U", "K">>, <<"E", "U">>, <<"U", "N">>, <<"M", "r">>,
     <<"M", "r", "s">>, <<"M", "s">>, <<"D", "r">>, <<"A", "M">>, <<"P", "M">>}

\* the raw matches of s that pass the exclusion filter, as candidates
FilteredMatches(s) ==
    LET raw == RawMatches(s, 0)
        kept == SelectSeq(raw, LAMBDA m :
                    /\ Slice(s, m.index, m.end) \notin SkipSet
                    /\ m.end - m.index <= 12)
    IN  [k \in 1..Len(kept) |->
            [term |-> Slice(s, kept[k].index, kept[k].end),
             index |-> kept[k].index]]

\* the candidates processTextNode accepted: its span fragments
AcceptedCandidates(frags) ==
    LET spans == SelectSeq(frags, LAMBDA f : f.kind = "span")
    IN  [k \in 1..Len(spans) |->
            [term |-> spans[k].data, index |-> spans[k].index]]

TwelveLetters ==
    <<"A", "B", "C", "D", "E", "F", "G", "H", "I", "J", "K", "L">>

ThirteenLetters ==
    <<"A", "B", "C", "D", "E", "F", "G", "H", "I", "J", "K", "L", "M">>

\* C9: the exclusion filter. The candidates processTextNode accepts are
\* the raw matches of the pattern, in order, whose token is not in the
\* skip-set and is at most 12 long; the sample sentence yields API at
\* offset 16 only, the 12-letter token is accepted, the 13-letter one not.
C9_ExclusionFilter ==
    (scanned /\ Len(text) >= 2)
        => /\ AcceptedCandidates(fragments) = FilteredMatches(text)
           /\ text = SampleUSA
                  => AcceptedCandidates(fragments)
                         = <<[term |-> <<"A", "P", "I">>, index |-> 16]>>
           /\ text = TwelveLetters
                  => AcceptedCandidates(fragments)
                         = <<[term |-> TwelveLetters, index |-> 0]>>
           /\ text = ThirteenLetters => AcceptedCandidates(fragments) = <<>>

\* C9 witness: processTextNode ran on a text with a raw match that is
\* rejected (here the 13-letter token) before one that is accepted
C9_Witness ==
    /\ scanned
    /\ Len(RawMatches(text, 0)) > Len(AcceptedCandidates(fragments))
    /\ Len(AcceptedCandidates(fragments)) > 0
    /\ RawMatches(text, 0)[1].end - RawMatches(text, 0)[1].index = 13
    /\ AcceptedCandidates(fragments)[1].index > 13

\* C10 as claimed: a mouseover on a marked span cancels every hide that is
\* scheduled, so no timer set before such a mouseover is left to fire.
C10_HideDebounce ==
    \A k \in DOMAIN timers : ~timers[k].rehovered

RECURSIVE IsWithin(_, _, _)
\* node m of document d is node n or lies below it
IsWithin(d, m, n) ==
    \/ m = n
    \/ d[m].parent # 0 /\ IsWithin(d, d[m].parent, n)

\* the elements of document d that were made as marked spans: they keep
\* their data-acronym when the class is removed
SpansOf(d) ==
    {n \in DOMAIN d : d[n].kind = "element" /\ d[n].acronym # <<>>}

\* C11 as claimed: when processPage has run for a SETTINGS_CHANGED with
\* extensionEnabled true, the term of every span made before is carried by
\* an element with the marker class again, the span itself or one inside it.
C11_ReenableRestores ==
    lastOp = "enable"
        => \A n \in SpansOf(dom) :
               \E m \in DOMAIN dom :
                   /\ dom[m].marked
                   /\ dom[m].acronym = dom[n].acronym
                   /\ IsWithin(dom, m, n)

\* a step of handleSettingsChange with extensionEnabled false that finds
\* marked spans
DisableStep ==
    dom' # dom /\ lastOp' = "disable"

\* C12: disable is a class-only change.  A SETTINGS_CHANGED with
\* extensionEnabled false leaves no element with the marker class, changes
\* nothing else of any node (no node added, removed or moved, no mutation
\* record queued), and leaves the cache of expansions and the pending
\* entries as they were.
C12_DisableClassOnly ==
    [][DisableStep
          => /\ \A n \in DOMAIN dom' : ~dom'[n].marked
             /\ DOMAIN dom' = DOMAIN dom
             /\ \A n \in DOMAIN dom :
                    [dom'[n] EXCEPT !.marked = dom[n].marked] = dom[n]
             /\ records' = records
             /\ expansions' = expansions
             /\ pending' = pending
      ]_vars

\* C12 witness: the spans were stripped while the cache held an expansion
\* and a request was pending
C12_Witness ==
    /\ lastOp = "disable"
    /\ SpansOf(dom) # {}
    /\ \A n \in DOMAIN dom : ~dom[n].marked
    /\ expansions # EmptyMap
    /\ pending # EmptyMap

\* C13 as claimed: no text node is scanned twice by the traversals the
\* mutation watcher starts, whatever the page inserts and whatever the
\* Segmenter inserts itself.
C13_SegmentOnce ==
    \A j, k \in DOMAIN scans : scans[j] = scans[k] => j = k

\* the text nodes of document d that the traversal accepts
AcceptedTextNodes(d) ==
    {n \in DOMAIN d : d[n].kind = "text" /\ acceptNode(d, n)}

\* C14 as claimed: once the traversal has run on document.body, no accepted
\* text node is left that holds an accepted match: each was replaced by a
\* container, a node whose whole text is one accepted term included.
C14_MatchedNodeReplaced ==
    lastOp \in {"initialize", "enable", "rerun"}
        => \A n \in AcceptedTextNodes(dom) :
               AcceptedCandidates(Fragments(dom[n].data)) = <<>>

\* C15 as claimed: when the content script handles an EXPANSION_RESULT for
\* a term that has no pending entry, the cache of expansions, the pending
\* entries and the tooltip stay as they are.
C15_UnsolicitedIgnored ==
    [][(ResultHandled /\ Head(toPage).acronym \notin DOMAIN pending)
          => /\ expansions' = expansions
             /\ pending' = pending
             /\ tooltip' = tooltip
      ]_vars

\* C16 as claimed: an EXPANSION_RESULT posted for a response that is not
\* the refusal phrase itself carries the response, trimmed and otherwise
\* unchanged, also when the response contains the phrase.
C16_OnlyLiteralRefusal ==
    \A k \in DOMAIN toPage :
        (toPage[k].response # Thrown /\ ~IsRefusal(toPage[k].response))
            => toPage[k].expansion = trim(toPage[k].response)

\* C17 as claimed: languageModel.create() returns at most one session, and
\* every listener call that has reached its prompt runs it on that session.
C17_SingleSession ==
    /\ sessions <= 1
    /\ \A i \in DOMAIN tasks : tasks[i].pc = "prompt" => tasks[i].session = 1

\* the calls processPage makes on the nodes it collected: every node once,
\* in the order collected, in batches of BATCH_SIZE
InBatches(nodes) ==
    [k \in DOMAIN nodes |->
        [node |-> nodes[k], batch |-> ((k - 1) \div BATCH_SIZE) * BATCH_SIZE]]

\* C18: bounded batches within one traversal.  processPage on
\* document.body calls processTextNode on the text nodes it collected, in
\* document order, the k-th call in the batch at offset
\* BATCH_SIZE * ((k-1) div BATCH_SIZE): batches are consecutive, hold at most
\* 50 nodes, and every call of a batch comes before the calls of the next.
C18_BoundedBatches ==
    [][lastOp' \in {"enable", "rerun"}
          => /\ visits' = InBatches(textNodes(dom, Body))
             /\ \A j, k \in DOMAIN visits' :
                    j < k => visits'[j].batch <= visits'[k].batch
             /\ \A k \in DOMAIN visits' :
                    Cardinality({j \in DOMAIN visits' :
                                    visits'[j].batch = visits'[k].batch})
                        <= 50
      ]_vars

\* C18 witness: a traversal of more than two full batches has run
C18_Witness ==
    /\ lastOp \in {"enable", "rerun"}
    /\ Len(visits) > 2 * BATCH_SIZE
    /\ Len(visits) % BATCH_SIZE # 0
    /\ visits[Len(visits)].batch = 2 * BATCH_SIZE

\* the token w stands at offset p of s as a whole word
WholeWordAt(s, w, p) ==
    /\ StartsWithAt(s, p, w)
    /\ IsWordBoundary(s, p)
    /\ IsWordBoundary(s, p + Len(w))

\* C19 as claimed: wherever "iOS" or "eBook" stands as a whole word in the
\* text, processTextNode accepts that token at that offset.
C19_PrefixedForms ==
    scanned
        => \A w \in {<<"i", "O", "S">>, <<"e", "B", "o", "o", "k">>} :
               \A p \in 0..Len(text) :
                   WholeWordAt(text, w, p)
                       => \E k \in DOMAIN AcceptedCandidates(fragments) :
                              AcceptedCandidates(fragments)[k]
                                  = [term |-> w, index |-> p]

RECURSIVE Concat(_)
\* the concatenation of the texts of the fragments frags, in order
Concat(frags) ==
    IF frags = <<>> THEN <<>> ELSE Head(frags).data \o Concat(Tail(frags))

RECURSIVE TextContentOf(_, _)
\* node.textContent of the nodes list of document d, in order
TextContentOf(d, list) ==
    IF list = <<>> THEN <<>>
    ELSE (IF d[Head(list)].kind = "text" THEN d[Head(list)].data
          ELSE TextContentOf(d, d[Head(list)].children))
         \o TextContentOf(d, Tail(list))

\* C20: text preservation.  When processTextNode replaces a node, the
\* texts of the fragments, in order, make up the node's text character for
\* character, each fragment lies at the offset it was cut from, and the
\* container built from them has the node's text as its textContent.
C20_TextPreserved ==
    (scanned /\ Replaces(fragments))
        => /\ Concat(fragments) = text
           /\ \A k \in DOMAIN fragments :
                  fragments[k].data
                      = Slice(text, fragments[k].index,
                              fragments[k].index + Len(fragments[k].data))
           /\ TextContentOf(ContainerNodes(fragments, 0, 0), <<1>>) = text

\* C20 witness: a node was replaced whose text has a rejected match
\* between two accepted ones
C20_Witness ==
    /\ scanned
    /\ Replaces(fragments)
    /\ text = SampleBetween
    /\ Len(AcceptedCandidates(fragments)) = 2
    /\ Len(RawMatches(text, 0)) = 3

\* C21 as claimed: whenever the tooltip is visible, it is anchored at the
\* marked span hovered last and shows the expansion of that span's term,
\* and the pointer is still on that span or a hide timer is pending.
C21_TooltipFollowsPointer ==
    tooltip.display = "block"
        => /\ pointer.span # 0
           /\ tooltip.anchor = pointer.span
           /\ dom[pointer.span].acronym \in DOMAIN expansions
           /\ tooltip.textContent = expansions[dom[pointer.span].acronym]
           /\ pointer.over \/ timers # <<>>

\* C22 as claimed: while the stored toggle is false, from page load or
\* from a SETTINGS_CHANGED with extensionEnabled false on, no element of the
\* document carries the marker class, whatever the page inserts.
C22_DisabledMeansNoMarking ==
    ~enabledSetting => \A n \in DOMAIN dom : ~dom[n].marked

====
